---- MODULE Spec2Model ----
(***************************************************************************)
(* StreamNook: the Discord game-image matcher (src/discord_game_matcher.py) *)
(* as a state machine.  One call of resolve_discord_game_image_improved is  *)
(* executed step by step: the early exit, the loop over the catalog, the    *)
(* loop over an entry's name variants with the five-rule scoring cascade,   *)
(* and the URL resolution of the winning entry.  A call may be followed by  *)
(* further calls (history records the completed ones) and may run while a   *)
(* second call (other) walks the same catalog.                              *)
(* The module also holds the catalog cache of src/main.py, the             *)
(* DiscordPresenceClient of src/discord_presence.py with its worker thread  *)
(* and its one-thread pool, and the ToastManager of src/toast.py; each has  *)
(* its own specification and leaves the variables of the others unchanged.  *)
(*                                                                          *)
(* Representation.  A Python str is a sequence of characters, each a        *)
(* one-character TLA+ string; the non-ASCII glyphs the code names are the   *)
(* characters "<reg>", "<tm>", "<copy>", "<endash>", "<emdash>".  Python    *)
(* None is NoneStr where a name is expected and None where a token, an id   *)
(* or the returned URL is expected.  A float score is the exact rational    *)
(* <<numerator, denominator>> in lowest terms; on the names and thresholds  *)
(* used below the floats the code computes compare exactly as these         *)
(* rationals do.                                                            *)
(***************************************************************************)
EXTENDS Integers, Sequences, FiniteSets, TLC

VARIABLES game_name, discord_apps, threshold, size, pc, app_i, names_to_check,
          name_j, best_match, best_score, scored, result, history, other,
          clock, cache_file, fetched,
          connected, presence, released, rpc_made, worker, pool, futures, slots, seen,
          active_toasts

vars == <<game_name, discord_apps, threshold, size, pc, app_i, names_to_check,
          name_j, best_match, best_score, scored, result, history, other,
          clock, cache_file, fetched,
          connected, presence, released, rpc_made, worker, pool, futures, slots, seen,
          active_toasts>>

\* the catalog cache, and the Discord presence client with its two threads
cache_vars == <<clock, cache_file, fetched>>

presence_vars == <<connected, presence, released, rpc_made, worker, pool, futures, slots,
                   seen>>

\* the toasts the ToastManager holds
toast_vars == <<active_toasts>>

\* the state of the other parts of the program, which no step of the matcher
\* touches
outside == <<cache_vars, presence_vars, toast_vars>>

(***************************************************************************)
(* Python values                                                           *)
(***************************************************************************)
None == "None"

NoneStr == <<"None">>

\* bool(x) of a str-or-None name: None and "" are falsy.
Truthy(s) == s # <<>> /\ s # NoneStr

\* bool(x) of a token / id (str or None).
TruthyTok(t) == t # None /\ t # ""

(***************************************************************************)
(* Exact rationals for the float scores                                    *)
(***************************************************************************)
RECURSIVE GCD(_, _)
GCD(a, b) == IF b = 0 THEN a ELSE GCD(b, a % b)

Rat(n, d) == IF n = 0 THEN <<0, 1>> ELSE <<n \div GCD(n, d), d \div GCD(n, d)>>

RLt(x, y) == x[1] * y[2] < y[1] * x[2]

RLe(x, y) == x[1] * y[2] <= y[1] * x[2]

RMax(x, y) == IF RLt(x, y) THEN y ELSE x

(***************************************************************************)
(* str primitives                                                          *)
(***************************************************************************)
WhiteSpace == {" ", "\t"}

Digits == {"0", "1", "2", "3", "4", "5", "6", "7", "8", "9"}

UpperCase == <<"A", "B", "C", "D", "E", "F", "G", "H", "I", "J", "K", "L", "M",
               "N", "O", "P", "Q", "R", "S", "T", "U", "V", "W", "X", "Y", "Z">>

LowerCase == <<"a", "b", "c", "d", "e", "f", "g", "h", "i", "j", "k", "l", "m",
               "n", "o", "p", "q", "r", "s", "t", "u", "v", "w", "x", "y", "z">>

\* the lower-case letter of every upper-case letter
Folded == [c \in {UpperCase[k] : k \in 1..26} |->
              LowerCase[CHOOSE k \in 1..26 : UpperCase[k] = c]]

casefold_char(c) == IF c \in DOMAIN Folded THEN Folded[c] ELSE c

RECURSIVE casefold(_)
casefold(s) == IF s = <<>> THEN <<>> ELSE <<casefold_char(Head(s))>> \o casefold(Tail(s))

RECURSIVE lstrip(_)
lstrip(s) == IF s # <<>> /\ Head(s) \in WhiteSpace THEN lstrip(Tail(s)) ELSE s

RECURSIVE rstrip(_)
rstrip(s) ==
    IF s # <<>> /\ s[Len(s)] \in WhiteSpace THEN rstrip(SubSeq(s, 1, Len(s) - 1)) ELSE s

strip(s) == rstrip(lstrip(s))

\* index of the first whitespace character of s at or after p, Len(s) + 1 if none
RECURSIVE word_end(_, _)
word_end(s, p) == IF p <= Len(s) /\ s[p] \notin WhiteSpace THEN word_end(s, p + 1) ELSE p

\* s.split(): the maximal runs of non-whitespace characters, in order
RECURSIVE split(_)
split(s) ==
    LET t == lstrip(s)
        e == word_end(t, 1)
    IN  IF t = <<>> THEN <<>> ELSE <<SubSeq(t, 1, e - 1)>> \o split(SubSeq(t, e, Len(t)))

\* ' '.join(words)
RECURSIVE join(_)
join(words) ==
    IF words = <<>> THEN <<>>
    ELSE IF Len(words) = 1 THEN words[1]
    ELSE words[1] \o <<" ">> \o join(Tail(words))

\* sub in s
contains(sub, s) == \E p \in 1..(Len(s) - Len(sub) + 1) : SubSeq(s, p, p + Len(sub) - 1) = sub

\* s.find(sub) + 1, for sub in s
find(sub, s) ==
    CHOOSE p \in 1..(Len(s) - Len(sub) + 1) :
        /\ SubSeq(s, p, p + Len(sub) - 1) = sub
        /\ \A q \in 1..(p - 1) : SubSeq(s, q, q + Len(sub) - 1) # sub

(***************************************************************************)
(* re.sub for the patterns _clean_game_name uses.  A pattern is a sequence  *)
(* of items: "one" (a character class), "star" / "plus" (greedy repetition  *)
(* of a class), "lazy_until" (the lazy .*? followed by a literal) and "eos" *)
(* ($).  In every pattern of the source a repeated class is disjoint from   *)
(* what may follow it, so greedy repetition never has to give back.         *)
(***************************************************************************)
RECURSIVE span_end(_, _, _)
span_end(s, p, cls) == IF p <= Len(s) /\ s[p] \in cls THEN span_end(s, p + 1, cls) ELSE p

\* re.match of pat at position p of s: the position after the match, 0 if none
RECURSIVE re_match(_, _, _)
RECURSIVE lazy_until(_, _, _, _)
lazy_until(rest, s, q, cls) ==
    IF q > Len(s) THEN 0
    ELSE LET e == IF s[q] \in cls THEN re_match(rest, s, q + 1) ELSE 0
         IN  IF e # 0 THEN e
             ELSE IF s[q] = "\n" THEN 0
             ELSE lazy_until(rest, s, q + 1, cls)

re_match(pat, s, p) ==
    IF pat = <<>> THEN p
    ELSE LET t == Head(pat)
             rest == Tail(pat)
         IN  CASE t.k = "one" ->
                    IF p <= Len(s) /\ s[p] \in t.cls THEN re_match(rest, s, p + 1) ELSE 0
               [] t.k = "star" -> re_match(rest, s, span_end(s, p, t.cls))
               [] t.k = "plus" ->
                    LET e == span_end(s, p, t.cls)
                    IN  IF e > p THEN re_match(rest, s, e) ELSE 0
               [] t.k = "lazy_until" -> lazy_until(rest, s, p, t.cls)
               [] t.k = "eos" ->
                    IF p = Len(s) + 1 \/ (p = Len(s) /\ s[p] = "\n")
                    THEN re_match(rest, s, p)
                    ELSE 0

\* re.sub(pat, repl, s) from position p on: leftmost non-overlapping matches
RECURSIVE re_sub_from(_, _, _, _)
re_sub_from(pat, repl, s, p) ==
    IF p > Len(s) THEN <<>>
    ELSE LET e == re_match(pat, s, p)
         IN  IF e > p THEN repl \o re_sub_from(pat, repl, s, e)
             ELSE <<s[p]>> \o re_sub_from(pat, repl, s, p + 1)

re_sub(pat, repl, s) == re_sub_from(pat, repl, s, 1)

One(cls) == [k |-> "one", cls |-> cls]

Star(cls) == [k |-> "star", cls |-> cls]

Plus(cls) == [k |-> "plus", cls |-> cls]

LazyUntil(cls) == [k |-> "lazy_until", cls |-> cls]

Eos == [k |-> "eos", cls |-> {}]

\* a literal word: one item per character
RECURSIVE Lit(_)
Lit(w) == IF w = <<>> THEN <<>> ELSE <<One({Head(w)})>> \o Lit(Tail(w))

trademark_pattern == <<One({"<reg>", "<tm>", "<copy>"})>>

patterns_to_remove ==
    << <<Star(WhiteSpace), One({"("}), LazyUntil({")"}), Star(WhiteSpace)>>,
       <<Star(WhiteSpace), One({"["}), LazyUntil({"]"}), Star(WhiteSpace)>>,
       <<Star(WhiteSpace), One({":"}), Star(WhiteSpace), One({"T", "t"})>>
           \o Lit(<<"h", "e">>) \o <<Plus(WhiteSpace)>>,
       <<Star(WhiteSpace), One({"-"}), Star(WhiteSpace), One({"S", "s"})>>
           \o Lit(<<"e", "a", "s", "o", "n">>) \o <<Plus(WhiteSpace), Plus(Digits)>>,
       <<Star(WhiteSpace), One({"E", "e"})>>
           \o Lit(<<"d", "i", "t", "i", "o", "n">>) \o <<Eos>>,
       <<Star(WhiteSpace), One({"R", "r"})>>
           \o Lit(<<"e", "m", "a", "s", "t", "e", "r", "e", "d">>) \o <<Eos>>,
       <<Star(WhiteSpace), One({"D", "d"})>>
           \o Lit(<<"e", "f", "i", "n", "i", "t", "i", "v", "e">>)
           \o <<Plus(WhiteSpace), One({"E", "e"})>>
           \o Lit(<<"d", "i", "t", "i", "o", "n">>) \o <<Eos>> >>

(***************************************************************************)
(* The helpers of the matcher                                               *)
(***************************************************************************)
_norm(s) == casefold(strip(IF Truthy(s) THEN s ELSE <<>>))

\* the for loop over patterns_to_remove, from pattern k on
RECURSIVE remove_patterns(_, _)
remove_patterns(cleaned, k) ==
    IF k > Len(patterns_to_remove) THEN cleaned
    ELSE remove_patterns(re_sub(patterns_to_remove[k], <<" ">>, cleaned), k + 1)

_clean_game_name(name) ==
    IF ~Truthy(name) THEN <<>>
    ELSE _norm(join(split(remove_patterns(re_sub(trademark_pattern, <<>>, name), 1))))

separators == << <<":">>, <<" ", "-", " ">>, <<"<endash>">>, <<"<emdash>">> >>

RECURSIVE core_from(_, _)
core_from(name, k) ==
    IF k > Len(separators) THEN name
    ELSE IF contains(separators[k], name)
    THEN strip(SubSeq(name, 1, find(separators[k], name) - 1))
    ELSE core_from(name, k + 1)

_extract_core_name(name) == core_from(name, 1)

stop_words == {<<"t", "h", "e">>, <<"a">>, <<"a", "n">>, <<"o", "f">>, <<"i", "n">>,
               <<"o", "n">>, <<"a", "t">>, <<"t", "o">>, <<"f", "o", "r">>}

_tokenize(name) == {split(_norm(name))[k] : k \in 1..Len(split(_norm(name)))} \ stop_words

(***************************************************************************)
(* difflib.SequenceMatcher(None, a, b).ratio().  No character is junk: the  *)
(* automatic junk heuristic only applies when len(b) >= 200.                *)
(***************************************************************************)
\* length of the common run starting at a[i] and b[j], inside a[..ahi], b[..bhi]
RECURSIVE run_len(_, _, _, _, _, _)
run_len(a, b, i, j, ahi, bhi) ==
    IF i <= ahi /\ j <= bhi /\ a[i] = b[j] THEN 1 + run_len(a, b, i + 1, j + 1, ahi, bhi) ELSE 0

\* <<i, j, k>>: the longest block a[i..i+k-1] = b[j..j+k-1] within a[alo..ahi] and
\* b[blo..bhi]; of the longest, the one starting earliest in a, then earliest in b
find_longest_match(a, b, alo, ahi, blo, bhi) ==
    LET pairs == (alo..ahi) \X (blo..bhi)
        len == [p \in pairs |-> run_len(a, b, p[1], p[2], ahi, bhi)]
        best == CHOOSE p \in pairs :
                    \A q \in pairs :
                        \/ len[q] < len[p]
                        \/ /\ len[q] = len[p]
                           /\ (p[1] < q[1] \/ (p[1] = q[1] /\ p[2] <= q[2]))
    IN  <<best[1], best[2], len[best]>>

\* the sum of the sizes of get_matching_blocks() within the two ranges
RECURSIVE matching_chars(_, _, _, _, _, _)
matching_chars(a, b, alo, ahi, blo, bhi) ==
    IF alo > ahi \/ blo > bhi THEN 0
    ELSE LET m == find_longest_match(a, b, alo, ahi, blo, bhi)
         IN  IF m[3] = 0 THEN 0
             ELSE m[3] + matching_chars(a, b, alo, m[1] - 1, blo, m[2] - 1)
                       + matching_chars(a, b, m[1] + m[3], ahi, m[2] + m[3], bhi)

_similarity_score(s1, s2) ==
    IF Len(s1) + Len(s2) = 0 THEN <<1, 1>>
    ELSE Rat(2 * matching_chars(s1, s2, 1, Len(s1), 1, Len(s2)), Len(s1) + Len(s2))

(***************************************************************************)
(* The scoring cascade of one name variant (lines 100-126)                  *)
(***************************************************************************)
Min(m, n) == IF m < n THEN m ELSE n

Max(m, n) == IF m < n THEN n ELSE m

\* A variant of score_rule that tests the core names before the cleaned forms,
\* used to show that the properties below depend on the order of lines 105-111.
score_rule_core_first(g, check_name) ==
    LET g_norm == _norm(g)
        g_clean == _clean_game_name(g)
        g_core == _norm(_extract_core_name(g))
        cn_norm == _norm(check_name)
        cn_clean == _clean_game_name(check_name)
        cn_core == _norm(_extract_core_name(check_name))
    IN  IF g_norm = cn_norm THEN 1
        ELSE IF g_core # <<>> /\ cn_core # <<>> /\ g_core = cn_core THEN 3
        ELSE IF g_clean = cn_clean THEN 2
        ELSE IF contains(g_norm, cn_norm) \/ contains(cn_norm, g_norm) THEN 4
        ELSE 5

\* the branch of the if / elif chain that scores check_name: 1 exact, 2 clean,
\* 3 core, 4 substring, 5 similarity and tokens
score_rule(g, check_name) ==
    LET g_norm == _norm(g)
        g_clean == _clean_game_name(g)
        g_core == _norm(_extract_core_name(g))
        cn_norm == _norm(check_name)
        cn_clean == _clean_game_name(check_name)
        cn_core == _norm(_extract_core_name(check_name))
    IN  IF g_norm = cn_norm THEN 1
        ELSE IF g_clean = cn_clean THEN 2
        ELSE IF g_core # <<>> /\ cn_core # <<>> /\ g_core = cn_core THEN 3
        ELSE IF contains(g_norm, cn_norm) \/ contains(cn_norm, g_norm) THEN 4
        ELSE 5

\* A variant of substring_score without the 0.1 weight on the length ratio, used
\* to show that the properties below depend on line 114.
substring_score_unweighted(g_norm, cn_norm) ==
    LET overlap_len == Min(Len(g_norm), Len(cn_norm))
        max_len == Max(Len(g_norm), Len(cn_norm))
    IN  Rat(8 * max_len + 10 * overlap_len, 10 * max_len)

\* lines 111-114: 0.8 + (0.1 * overlap_len / max_len)
substring_score(g_norm, cn_norm) ==
    LET overlap_len == Min(Len(g_norm), Len(cn_norm))
        max_len == Max(Len(g_norm), Len(cn_norm))
    IN  Rat(8 * max_len + overlap_len, 10 * max_len)

\* A variant of fallback_score that compares the normalised and the cleaned
\* forms but not the core names, used to show that the properties below depend
\* on line 118.
fallback_score_without_core(g, check_name) ==
    LET g_tokens == _tokenize(g)
        cn_tokens == _tokenize(check_name)
        sim_norm == _similarity_score(_norm(g), _norm(check_name))
        sim_clean == _similarity_score(_clean_game_name(g), _clean_game_name(check_name))
        sim == RMax(sim_norm, sim_clean)
        common_tokens == g_tokens \cap cn_tokens
        token_max == Max(Cardinality(g_tokens), Cardinality(cn_tokens))
    IN  IF g_tokens # {} /\ cn_tokens # {} /\ common_tokens # {}
        THEN RMax(sim, Rat(17 * Cardinality(common_tokens), 20 * token_max))
        ELSE sim

\* A variant of fallback_score without the 0.85 weight on the share of common
\* tokens, used to show that the properties below depend on line 126.
fallback_score_tokens_unweighted(g, check_name) ==
    LET g_core == _norm(_extract_core_name(g))
        cn_core == _norm(_extract_core_name(check_name))
        g_tokens == _tokenize(g)
        cn_tokens == _tokenize(check_name)
        sim_norm == _similarity_score(_norm(g), _norm(check_name))
        sim_clean == _similarity_score(_clean_game_name(g), _clean_game_name(check_name))
        sim_core == IF g_core # <<>> /\ cn_core # <<>>
                    THEN _similarity_score(g_core, cn_core)
                    ELSE <<0, 1>>
        sim == RMax(RMax(sim_norm, sim_clean), sim_core)
        common_tokens == g_tokens \cap cn_tokens
        token_max == Max(Cardinality(g_tokens), Cardinality(cn_tokens))
    IN  IF g_tokens # {} /\ cn_tokens # {} /\ common_tokens # {}
        THEN RMax(sim, Rat(Cardinality(common_tokens), token_max))
        ELSE sim

\* lines 115-126: the best of three similarity ratios and the weighted share of
\* common tokens
fallback_score(g, check_name) ==
    LET g_core == _norm(_extract_core_name(g))
        cn_core == _norm(_extract_core_name(check_name))
        g_tokens == _tokenize(g)
        cn_tokens == _tokenize(check_name)
        sim_norm == _similarity_score(_norm(g), _norm(check_name))
        sim_clean == _similarity_score(_clean_game_name(g), _clean_game_name(check_name))
        sim_core == IF g_core # <<>> /\ cn_core # <<>>
                    THEN _similarity_score(g_core, cn_core)
                    ELSE <<0, 1>>
        sim == RMax(RMax(sim_norm, sim_clean), sim_core)
        common_tokens == g_tokens \cap cn_tokens
        token_max == Max(Cardinality(g_tokens), Cardinality(cn_tokens))
    IN  IF g_tokens # {} /\ cn_tokens # {} /\ common_tokens # {}
        THEN RMax(sim, Rat(17 * Cardinality(common_tokens), 20 * token_max))
        ELSE sim

\* A variant of variant_score in which equal cleaned forms count as an exact
\* match, used to show that the properties below depend on line 108.
variant_score_clean_is_exact(g, check_name) ==
    LET rule == score_rule(g, check_name)
    IN  IF rule = 1 THEN <<1, 1>>
        ELSE IF rule = 2 THEN <<1, 1>>
        ELSE IF rule = 3 THEN <<9, 10>>
        ELSE IF rule = 4 THEN substring_score(_norm(g), _norm(check_name))
        ELSE fallback_score(g, check_name)

\* lines 98-126: the score of one name variant
variant_score(g, check_name) ==
    LET rule == score_rule(g, check_name)
    IN  IF rule = 1 THEN <<1, 1>>
        ELSE IF rule = 2 THEN <<19, 20>>
        ELSE IF rule = 3 THEN <<9, 10>>
        ELSE IF rule = 4 THEN substring_score(_norm(g), _norm(check_name))
        ELSE fallback_score(g, check_name)

(***************************************************************************)
(* Selection and URL resolution                                            *)
(***************************************************************************)
\* line 77: the early return
early_exit(g, apps) == ~Truthy(g) \/ apps = <<>>

\* A variant of names_of that leaves the entry's name out, used to show that the
\* properties below depend on line 93.
names_of_aliases_only(app) == app.aliases

\* lines 93-95: [app_name] + (app.get("aliases") or []); a missing or None
\* aliases field is the empty sequence
names_of(app) == <<app.name>> \o app.aliases

\* an element of aliases that is an int other than 0: not a str, and truthy
IntElem == <<"<int>">>

\* lines 100-102: for an int element _norm raises AttributeError, (5 or "") has
\* no strip; for a None element _norm and _clean_game_name return "" and
\* _extract_core_name raises TypeError at line 54, ':' in None
scoring_raises(check_name) == check_name \in {NoneStr, IntElem}

\* A variant of catalog_after_names that takes the names out of the entry's own
\* aliases list, used to show that the properties below depend on lines 93-95
\* building a new list.
catalog_after_names_consumed(apps, i) == [apps EXCEPT ![i].aliases = <<>>]

\* lines 93-95: names_to_check is a new list and extend() appends to it alone;
\* the catalog, entry i and its aliases list are what they were
catalog_after_names(apps, i) == apps

\* Variants of is_better with a slip in the comparison, used to show that the
\* properties below depend on line 128.
is_better_ties_replace(score, best, thr) == RLe(best, score) /\ RLe(thr, score)

is_better_no_threshold(score, best, thr) == RLt(best, score)

is_better_above_threshold(score, best, thr) == RLt(best, score) /\ RLt(thr, score)

is_better_last_qualifying(score, best, thr) == RLe(thr, score)

is_better_below_threshold(score, best, thr) == RLt(best, score) /\ RLe(score, thr)

is_better_first_qualifying(score, best, thr) ==
    best = <<0, 1>> /\ RLt(<<0, 1>>, score) /\ RLe(thr, score)

\* line 128: the condition under which a variant replaces the running best
is_better(score, best, thr) == RLt(best, score) /\ RLe(thr, score)

\* Variants of image_url with a slip in the preference order, in the id check and
\* in the icon template, used to show that the properties below depend on lines
\* 151-166.
image_url_icon_first(app, sz) ==
    IF TruthyTok(app.icon_hash) /\ TruthyTok(app.id)
    THEN "https://cdn.discordapp.com/app-icons/" \o app.id \o "/" \o app.icon_hash
             \o ".png?size=" \o ToString(sz)
    ELSE IF TruthyTok(app.cover_image) /\ TruthyTok(app.id)
    THEN "https://cdn.discordapp.com/app-assets/" \o app.id \o "/" \o app.cover_image
             \o ".png?size=" \o ToString(sz)
    ELSE None

image_url_cover_without_id(app, sz) ==
    IF TruthyTok(app.cover_image)
    THEN "https://cdn.discordapp.com/app-assets/" \o app.id \o "/" \o app.cover_image
             \o ".png?size=" \o ToString(sz)
    ELSE IF TruthyTok(app.icon_hash) /\ TruthyTok(app.id)
    THEN "https://cdn.discordapp.com/app-icons/" \o app.id \o "/" \o app.icon_hash
             \o ".png?size=" \o ToString(sz)
    ELSE None

image_url_icon_assets_path(app, sz) ==
    IF TruthyTok(app.cover_image) /\ TruthyTok(app.id)
    THEN "https://cdn.discordapp.com/app-assets/" \o app.id \o "/" \o app.cover_image
             \o ".png?size=" \o ToString(sz)
    ELSE IF TruthyTok(app.icon_hash) /\ TruthyTok(app.id)
    THEN "https://cdn.discordapp.com/app-assets/" \o app.id \o "/" \o app.icon_hash
             \o ".png?size=" \o ToString(sz)
    ELSE None

\* lines 138-166: the URL of the winning entry, None if it cannot be built
image_url(app, sz) ==
    IF TruthyTok(app.cover_image) /\ TruthyTok(app.id)
    THEN "https://cdn.discordapp.com/app-assets/" \o app.id \o "/" \o app.cover_image
             \o ".png?size=" \o ToString(sz)
    ELSE IF TruthyTok(app.icon_hash) /\ TruthyTok(app.id)
    THEN "https://cdn.discordapp.com/app-icons/" \o app.id \o "/" \o app.icon_hash
             \o ".png?size=" \o ToString(sz)
    ELSE None

\* the name variants the two loops visit, in order, from entry i on
RECURSIVE variants_from(_, _)
variants_from(apps, i) ==
    IF i > Len(apps) THEN <<>>
    ELSE (IF Truthy(apps[i].name)
          THEN [k \in 1..Len(names_of(apps[i])) |-> [app |-> i, name |-> names_of(apps[i])[k]]]
          ELSE <<>>) \o variants_from(apps, i + 1)

\* <<best_match, best_score>> after the first k variants of vs
RECURSIVE select(_, _, _, _)
select(g, vs, thr, k) ==
    IF k = 0 THEN <<0, <<0, 1>>>>
    ELSE LET prev == select(g, vs, thr, k - 1)
             score == variant_score(g, vs[k].name)
         IN  IF is_better(score, prev[2], thr) THEN <<vs[k].app, score>> ELSE prev

\* the entry one whole call selects (0: none)
winner(g, apps, thr) ==
    IF early_exit(g, apps) THEN 0
    ELSE select(g, variants_from(apps, 1), thr, Len(variants_from(apps, 1)))[1]

\* one whole call, as a function of its arguments
resolve_discord_game_image_improved(g, apps, thr, sz) ==
    IF winner(g, apps, thr) = 0 THEN None ELSE image_url(apps[winner(g, apps, thr)], sz)

(***************************************************************************)
(* The inputs of a call                                                    *)
(***************************************************************************)
MaxApps == 2

DefaultSize == 512

DefaultThreshold == <<3, 5>>

q_ab == <<"a", "b">>

q_elden == <<"E", "l", "d", "e", "n", " ", "R", "i", "n", "g">>

QueryPool == {<<>>, <<" ">>, q_ab, q_elden}

Thresholds == {<<0, 1>>, DefaultThreshold, <<1, 1>>, <<11, 10>>}

Sizes == {DefaultSize, 64, 1024}

App(name, aliases, id, cover_image, icon_hash) ==
    [name |-> name, aliases |-> aliases, id |-> id,
     cover_image |-> cover_image, icon_hash |-> icon_hash]

EntryPool ==
    { App(<<"E", "L", "D", "E", "N", " ", "R", "I", "N", "G">>, <<>>, "123", "abc", None),
      App(<<"A", "B", " ">>, << <<"x", "y">> >>, "7", "cov7", "ico7"),
      App(<<"x", "y">>, << <<>>, <<"a", "b">> >>, "9", "", None),
      App(<<"a", "b", " ", "(", "x", ")">>, <<>>, "8", None, "ico8"),
      App(<<"a", "b", "c">>, << <<" ">> >>, None, "cov5", "ico5"),
      App(<<>>, << <<"a", "b">> >>, "6", "cov6", "ico6") }

Catalogs == UNION {[1..n -> EntryPool] : n \in 0..MaxApps}

(***************************************************************************)
(* The cache of the catalog (src/main.py, lines 94-132)                     *)
(***************************************************************************)
\* line 117: 12 * 3600, the seconds a fetched list stays fresh
RefreshPeriod == 12 * 3600

\* the cache file: readable is FALSE for a file that is missing or whose text
\* is not JSON
CacheFile(readable, fetched_at, apps) ==
    [readable |-> readable, fetched_at |-> fetched_at, apps |-> apps]

NoCacheFile == CacheFile(FALSE, 0, <<>>)

\* lines 96-102: the content of the file, or the default when it cannot be read
_load_detectable_cache(file) ==
    IF file.readable THEN [fetched_at |-> file.fetched_at, apps |-> file.apps]
    ELSE [fetched_at |-> 0, apps |-> <<>>]

\* lines 104-108: the file after write_text; a write that fails leaves the file
\* as it was, and the exception is dropped
_save_detectable_cache(file, cache, written) ==
    IF written THEN CacheFile(TRUE, cache.fetched_at, cache.apps) ELSE file

\* A variant of cache_is_fresh with the comparison the wrong way round, used to
\* show that the properties below depend on line 117.
cache_is_fresh_reversed(cache, now) ==
    now - cache.fetched_at > RefreshPeriod /\ cache.apps # <<>>

\* line 117: the test under which the cached list is returned as it is
cache_is_fresh(cache, now) ==
    now - cache.fetched_at < RefreshPeriod /\ cache.apps # <<>>

\* no call of _fetch_detectables_from_discord has been made
NoFetch == [called |-> FALSE]

\* the clock stands at 0, there is no cache file
CacheIdle ==
    /\ clock = 0
    /\ cache_file = NoCacheFile
    /\ fetched = NoFetch

(***************************************************************************)
(* DiscordPresenceClient (src/discord_presence.py)                          *)
(***************************************************************************)
\* the value of self.presence after del self.presence: the attribute is gone
\* and reading it raises AttributeError
Deleted == "deleted"

\* the n-th RPC object that connect_to_discord creates
RpcObject(n) == "rpc" \o ToString(n)

\* bool(self.presence) for None or an RPC object
HasPresence == presence \notin {None, Deleted}

\* a thread that runs nothing
Idle == [slot |-> "idle", pc |-> "idle", ref |-> None, call |-> 0]

At(slot, step, ref, call) == [slot |-> slot, pc |-> step, ref |-> ref, call |-> call]

\* what has been observed so far: calls of disconnect_from_discord, emissions
\* of disconnected, whether one was emitted with connected True or with a
\* presence left, whether a slot ended with an exception that nothing caught,
\* and whether set_activity or clear was called on an object already released
NothingSeen ==
    [calls |-> 0, emitted |-> 0, emitted_connected |-> FALSE, emitted_presence |-> FALSE,
     uncaught |-> FALSE, called_released |-> FALSE]

\* lines 33-37: a new client, with neither thread at work
PresenceIdle ==
    /\ connected = FALSE
    /\ presence = None
    /\ released = {}
    /\ rpc_made = 0
    /\ worker = Idle
    /\ pool = Idle
    /\ futures = <<>>
    /\ slots = 0
    /\ seen = NothingSeen

(***************************************************************************)
(* ToastManager (src/toast.py)                                              *)
(***************************************************************************)
\* line 436: self.max_toasts = 5
max_toasts == 5

\* line 434: self.active_toasts = []
ToastIdle == active_toasts = <<>>

\* the matcher runs on its own
OutsideIdle == CacheIdle /\ PresenceIdle /\ ToastIdle

(***************************************************************************)
(* One call of resolve_discord_game_image_improved, step by step           *)
(***************************************************************************)
\* no second call runs beside this one
NoOther == [pc |-> "none"]

\* the locals of a call that has not started, the first and the only one
NotStarted ==
    /\ pc = "call"
    /\ app_i = 0
    /\ names_to_check = <<>>
    /\ name_j = 0
    /\ best_match = 0
    /\ best_score = <<0, 1>>
    /\ scored = <<>>
    /\ result = None
    /\ history = <<>>
    /\ other = NoOther
    /\ OutsideIdle

\* a call with any query, catalog and threshold, and the default size
Init ==
    /\ game_name \in QueryPool
    /\ discord_apps \in Catalogs
    /\ threshold \in Thresholds
    /\ size = DefaultSize
    /\ NotStarted

\* a call with a query that names a game, the default threshold or 0, and any size
InitUrl ==
    /\ game_name \in {q_ab, q_elden}
    /\ discord_apps \in Catalogs
    /\ threshold \in {DefaultThreshold, <<0, 1>>}
    /\ size \in Sizes
    /\ NotStarted

\* A variant of Enter in which best_match and best_score outlive the call, as
\* module-level variables would, used to show that the properties below depend
\* on lines 85-86.
Enter_keeps_best ==
    /\ pc = "call"
    /\ IF early_exit(game_name, discord_apps)
       THEN pc' = "done" /\ result' = None
       ELSE pc' = "for_app" /\ UNCHANGED result
    /\ UNCHANGED <<game_name, discord_apps, threshold, size, app_i, names_to_check,
                   name_j, best_match, best_score, scored, history, other, outside>>

\* lines 77-86: the early return, or the set-up of the running best
Enter ==
    /\ pc = "call"
    /\ IF early_exit(game_name, discord_apps)
       THEN /\ pc' = "done"
            /\ result' = None
            /\ UNCHANGED <<best_match, best_score>>
       ELSE /\ pc' = "for_app"
            /\ best_match' = 0
            /\ best_score' = <<0, 1>>
            /\ UNCHANGED result
    /\ UNCHANGED <<game_name, discord_apps, threshold, size, app_i, names_to_check,
                   name_j, scored, history, other, outside>>

\* lines 88-95: the next entry of the catalog; an entry without a name is skipped
NextApp ==
    /\ pc = "for_app"
    /\ app_i < Len(discord_apps)
    /\ app_i' = app_i + 1
    /\ IF Truthy(discord_apps[app_i + 1].name)
       THEN /\ names_to_check' = names_of(discord_apps[app_i + 1])
            /\ discord_apps' = catalog_after_names(discord_apps, app_i + 1)
            /\ name_j' = 0
            /\ pc' = "for_name"
       ELSE UNCHANGED <<names_to_check, discord_apps, name_j, pc>>
    /\ UNCHANGED <<game_name, threshold, size, best_match, best_score, scored, result,
                   history, other, outside>>

\* lines 97-130: score the next name variant and update the running best; an
\* element that is not a str ends the call with an exception
ScoreName ==
    /\ pc = "for_name"
    /\ name_j < Len(names_to_check)
    /\ LET check_name == names_to_check[name_j + 1]
           score == variant_score(game_name, check_name)
       IN  IF scoring_raises(check_name)
           THEN /\ pc' = "raised"
                /\ UNCHANGED <<scored, best_score, best_match>>
           ELSE /\ scored' = Append(scored, [app |-> app_i, name |-> check_name,
                                             score |-> score])
                /\ IF is_better(score, best_score, threshold)
                   THEN best_score' = score /\ best_match' = app_i
                   ELSE UNCHANGED <<best_score, best_match>>
                /\ pc' = IF name_j + 1 = Len(names_to_check) THEN "for_app" ELSE "for_name"
    /\ name_j' = name_j + 1
    /\ UNCHANGED <<game_name, discord_apps, threshold, size, app_i, names_to_check, result,
                   history, other, outside>>

\* lines 132-166: no match, or the URL of the winning entry
Resolve ==
    /\ pc = "for_app"
    /\ app_i = Len(discord_apps)
    /\ result' = IF best_match = 0 THEN None ELSE image_url(discord_apps[best_match], size)
    /\ pc' = "done"
    /\ UNCHANGED <<game_name, discord_apps, threshold, size, app_i, names_to_check,
                   name_j, best_match, best_score, scored, history, other, outside>>

Next == Enter \/ NextApp \/ ScoreName \/ Resolve

Spec == Init /\ [][Next]_vars

SpecUrl == InitUrl /\ [][Next]_vars

(***************************************************************************)
(* Calls on catalogs with missing, None and empty fields                   *)
(***************************************************************************)
\* entries as app.get() sees them: a missing or None name is NoneStr, missing or
\* None aliases are the empty sequence, a missing id or token is None; aliases
\* may hold None or an int
MalformedPool ==
    { App(NoneStr, << NoneStr >>, "1", "c1", None),
      App(<<"a", "b">>, <<>>, None, None, None),
      App(<<"x", "y">>, << NoneStr >>, "3", "c3", "i3"),
      App(<<"x", "y">>, << IntElem, <<"a", "b">> >>, "4", None, "i4"),
      App(<<>>, <<>>, "", "", ""),
      App(<<"a", "b">>, << <<>> >>, "6", "", "i6") }

MalformedCatalogs == UNION {[1..n -> MalformedPool] : n \in 0..MaxApps}

InitMalformed ==
    /\ game_name \in {<<>>, q_ab}
    /\ discord_apps \in MalformedCatalogs
    /\ threshold \in {DefaultThreshold, <<0, 1>>}
    /\ size = DefaultSize
    /\ NotStarted

SpecMalformed == InitMalformed /\ [][Next]_vars

(***************************************************************************)
(* Calls that exercise the rules of the cascade                            *)
(***************************************************************************)
\* "ab: c"
n_ab_c == <<"a", "b", ":", " ", "c">>

\* "ab: c (x)"
n_ab_c_x == <<"a", "b", ":", " ", "c", " ", "(", "x", ")">>

\* "ab - d"
n_ab_d == <<"a", "b", " ", "-", " ", "d">>

\* "(x)"
n_paren == <<"(", "x", ")">>

\* "[y]"
n_bracket == <<"[", "y", "]">>

\* "a - b: c"
n_a_b_c == <<"a", " ", "-", " ", "b", ":", " ", "c">>

\* "a"
n_a == <<"a">>

\* "Expedition"
n_expedition == <<"E", "x", "p", "e", "d", "i", "t", "i", "o", "n">>

\* "exp"
n_exp == <<"e", "x", "p">>

\* "X EDITION"
n_x_EDITION == <<"X", " ", "E", "D", "I", "T", "I", "O", "N">>

\* "X Edition"
n_x_Edition == <<"X", " ", "E", "d", "i", "t", "i", "o", "n">>

\* "x"
n_x == <<"x">>

\* "Counter-Strike 2"
q_cs2 ==
    <<"C", "o", "u", "n", "t", "e", "r", "-",
      "S", "t", "r", "i", "k", "e", " ", "2">>

\* "Counter-Strike: Global Offensive"
n_csgo ==
    <<"C", "o", "u", "n", "t", "e", "r", "-", "S", "t", "r", "i", "k", "e", ":", " ",
      "G", "l", "o", "b", "a", "l", " ", "O", "f", "f", "e", "n", "s", "i", "v", "e">>

\* "CS2"
n_cs2 == <<"C", "S", "2">>

\* "Halo"
n_halo == <<"H", "a", "l", "o">>

\* "Halo Definitive Edition"
n_halo_definitive ==
    <<"H", "a", "l", "o", " ", "D", "e", "f", "i", "n", "i", "t", "i", "v", "e",
      " ", "E", "d", "i", "t", "i", "o", "n">>

\* "ab cd"
n_ab_cd == <<"a", "b", " ", "c", "d">>

\* "cd ab"
n_cd_ab == <<"c", "d", " ", "a", "b">>

ScoreNames ==
    {q_ab, n_ab_c, n_ab_c_x, n_ab_d, n_paren, n_bracket, n_a_b_c, n_a, n_expedition,
     n_exp, n_x_EDITION, n_x_Edition, n_x, q_cs2, n_csgo, n_cs2, n_halo,
     n_halo_definitive, n_ab_cd, n_cd_ab}

\* the catalog of the Counter-Strike scenario
catalog_csgo == << App(n_csgo, << n_cs2 >>, "7", None, "icon1") >>

\* catalogs of one entry: any name without aliases, and three with an alias
ScoreCatalogs ==
    {<< App(n, <<>>, "7", None, "icon1") >> : n \in ScoreNames}
        \cup {catalog_csgo,
              << App(n_x, << n_ab_c >>, "7", "cov7", None) >>,
              << App(n_paren, << n_ab_d, q_ab >>, "7", "cov7", None) >>}

InitScore ==
    /\ game_name \in ScoreNames
    /\ discord_apps \in ScoreCatalogs
    /\ threshold = DefaultThreshold
    /\ size = DefaultSize
    /\ NotStarted

SpecScore == InitScore /\ [][Next]_vars

(***************************************************************************)
(* Several calls, one after the other                                      *)
(***************************************************************************)
MaxCalls == 3

CallQueries == {q_ab, q_elden}

CallCatalogs ==
    { << App(<<"A", "B", " ">>, << <<"x", "y">> >>, "7", "cov7", "ico7"),
         App(<<"a", "b", " ", "(", "x", ")">>, <<>>, "8", None, "ico8") >>,
      << App(<<"a", "b", " ", "(", "x", ")">>, <<>>, "8", None, "ico8"),
         App(<<"A", "B", " ">>, << <<"x", "y">> >>, "7", "cov7", "ico7") >> }

CallSizes == {DefaultSize, 64}

InitCalls ==
    /\ game_name \in CallQueries
    /\ discord_apps \in CallCatalogs
    /\ threshold = DefaultThreshold
    /\ size \in CallSizes
    /\ NotStarted

\* line 66: the function is called again once a call has returned.  The
\* arguments are new and the loops start over; best_match and best_score hold
\* what the frame finds until lines 85-86 assign them.
CallAgain ==
    /\ pc = "done"
    /\ Len(history) + 1 < MaxCalls
    /\ history' = Append(history, [game_name |-> game_name, discord_apps |-> discord_apps,
                                   threshold |-> threshold, size |-> size,
                                   result |-> result])
    /\ game_name' \in CallQueries
    /\ discord_apps' \in CallCatalogs
    /\ size' \in CallSizes
    /\ pc' = "call"
    /\ app_i' = 0
    /\ names_to_check' = <<>>
    /\ name_j' = 0
    /\ scored' = <<>>
    /\ result' = None
    /\ UNCHANGED <<threshold, best_match, best_score, other, outside>>

NextCalls == Next \/ CallAgain

SpecCalls == InitCalls /\ [][NextCalls]_vars

(***************************************************************************)
(* Two calls at once on the same catalog                                   *)
(***************************************************************************)
\* the arguments and locals of the second call, before it starts
OtherCall(q, thr, sz) ==
    [pc |-> "call", game_name |-> q, threshold |-> thr, size |-> sz, app_i |-> 0,
     names_to_check |-> <<>>, name_j |-> 0, best_match |-> 0, best_score |-> <<0, 1>>,
     result |-> None]

\* what the second call leaves alone: all but the catalog and its own locals
call_vars == <<game_name, threshold, size, pc, app_i, names_to_check, name_j, best_match,
               best_score, scored, result, history, outside>>

ConcurrentQueries == {q_ab, <<"x", "y">>}

ConcurrentPool ==
    { App(<<"A", "B", " ">>, << <<"x", "y">> >>, "7", "cov7", "ico7"),
      App(<<"a", "b", " ", "(", "x", ")">>, <<>>, "8", None, "ico8"),
      App(<<"x", "y">>, << <<>>, <<"a", "b">> >>, "9", "", None) }

ConcurrentCatalogs == UNION {[1..n -> ConcurrentPool] : n \in 0..MaxApps}

InitConcurrent ==
    /\ game_name \in ConcurrentQueries
    /\ discord_apps \in ConcurrentCatalogs
    /\ threshold = DefaultThreshold
    /\ size = DefaultSize
    /\ pc = "call"
    /\ app_i = 0
    /\ names_to_check = <<>>
    /\ name_j = 0
    /\ best_match = 0
    /\ best_score = <<0, 1>>
    /\ scored = <<>>
    /\ result = None
    /\ history = <<>>
    /\ OutsideIdle
    /\ \E q \in ConcurrentQueries : other = OtherCall(q, DefaultThreshold, DefaultSize)

\* lines 77-86 in the second call
OtherEnter ==
    /\ other.pc = "call"
    /\ other' = IF early_exit(other.game_name, discord_apps)
                THEN [other EXCEPT !.pc = "done", !.result = None]
                ELSE [other EXCEPT !.pc = "for_app", !.best_match = 0,
                                   !.best_score = <<0, 1>>]
    /\ UNCHANGED <<discord_apps, call_vars>>

\* lines 88-95 in the second call
OtherNextApp ==
    /\ other.pc = "for_app"
    /\ other.app_i < Len(discord_apps)
    /\ IF Truthy(discord_apps[other.app_i + 1].name)
       THEN /\ other' = [other EXCEPT !.app_i = @ + 1,
                             !.names_to_check = names_of(discord_apps[other.app_i + 1]),
                             !.name_j = 0, !.pc = "for_name"]
            /\ discord_apps' = catalog_after_names(discord_apps, other.app_i + 1)
       ELSE /\ other' = [other EXCEPT !.app_i = @ + 1]
            /\ UNCHANGED discord_apps
    /\ UNCHANGED call_vars

\* lines 97-130 in the second call
OtherScoreName ==
    /\ other.pc = "for_name"
    /\ other.name_j < Len(other.names_to_check)
    /\ LET check_name == other.names_to_check[other.name_j + 1]
           score == variant_score(other.game_name, check_name)
           last == other.name_j + 1 = Len(other.names_to_check)
       IN  other' =
               IF scoring_raises(check_name)
               THEN [other EXCEPT !.pc = "raised", !.name_j = @ + 1]
               ELSE IF is_better(score, other.best_score, other.threshold)
               THEN [other EXCEPT !.best_score = score, !.best_match = other.app_i,
                                  !.name_j = @ + 1,
                                  !.pc = IF last THEN "for_app" ELSE "for_name"]
               ELSE [other EXCEPT !.name_j = @ + 1,
                                  !.pc = IF last THEN "for_app" ELSE "for_name"]
    /\ UNCHANGED <<discord_apps, call_vars>>

\* lines 132-166 in the second call
OtherResolve ==
    /\ other.pc = "for_app"
    /\ other.app_i = Len(discord_apps)
    /\ other' = [other EXCEPT !.pc = "done",
                     !.result = IF other.best_match = 0 THEN None
                                ELSE image_url(discord_apps[other.best_match], other.size)]
    /\ UNCHANGED <<discord_apps, call_vars>>

NextConcurrent ==
    Next \/ OtherEnter \/ OtherNextApp \/ OtherScoreName \/ OtherResolve

SpecConcurrent == InitConcurrent /\ [][NextConcurrent]_vars

(***************************************************************************)
(* Calls of _fetch_detectables_from_discord as time passes                 *)
(***************************************************************************)
MaxTicks == 4

\* the lists the Discord endpoint may answer with; an app is its id
ServerLists == {<<>>, <<"app1">>, <<"app1", "app2">>}

\* the matcher does not run
MatcherIdle ==
    /\ game_name = <<>>
    /\ discord_apps = <<>>
    /\ threshold = DefaultThreshold
    /\ size = DefaultSize
    /\ pc = "idle"
    /\ app_i = 0
    /\ names_to_check = <<>>
    /\ name_j = 0
    /\ best_match = 0
    /\ best_score = <<0, 1>>
    /\ scored = <<>>
    /\ result = None
    /\ history = <<>>
    /\ other = NoOther

matcher_vars == <<game_name, discord_apps, threshold, size, pc, app_i, names_to_check,
                  name_j, best_match, best_score, scored, result, history, other>>

\* first start: no cache file, or one left by an earlier run at time 0
InitCache ==
    /\ MatcherIdle
    /\ PresenceIdle
    /\ ToastIdle
    /\ clock = 0
    /\ cache_file \in {NoCacheFile} \cup {CacheFile(TRUE, 0, apps) : apps \in ServerLists}
    /\ fetched = NoFetch

\* what one call did: the time, the file before it, the cache it loaded, whether
\* it asked the network and with what outcome, and what it returned
Fetched(file, requested, net, response, returned) ==
    [called |-> TRUE, at |-> clock, file_before |-> file,
     loaded |-> _load_detectable_cache(file), requested |-> requested, net |-> net,
     response |-> response, returned |-> returned, raised |-> FALSE]

\* lines 110-132: one call; the request succeeds with some list or fails, and
\* the write of the cache file succeeds or fails
_fetch_detectables_from_discord ==
    /\ LET cache == _load_detectable_cache(cache_file)
       IN  IF cache_is_fresh(cache, clock)
           THEN /\ fetched' = Fetched(cache_file, FALSE, "none", <<>>, cache.apps)
                /\ UNCHANGED cache_file
           ELSE \E ok \in BOOLEAN, apps \in ServerLists, written \in BOOLEAN :
                    IF ok
                    THEN /\ cache_file' = _save_detectable_cache(cache_file,
                                              [fetched_at |-> clock, apps |-> apps], written)
                         /\ fetched' = Fetched(cache_file, TRUE, "ok", apps, apps)
                    ELSE /\ UNCHANGED cache_file
                         /\ fetched' = Fetched(cache_file, TRUE, "failed", <<>>, cache.apps)
    /\ UNCHANGED <<clock, matcher_vars, presence_vars, toast_vars>>

\* time passes, half a refresh period at a time
Tick ==
    /\ clock < MaxTicks * (RefreshPeriod \div 2)
    /\ clock' = clock + RefreshPeriod \div 2
    /\ UNCHANGED <<cache_file, fetched, matcher_vars, presence_vars, toast_vars>>

NextCache == _fetch_detectables_from_discord \/ Tick

SpecCache == InitCache /\ [][NextCache]_vars

(***************************************************************************)
(* The slots of DiscordPresenceClient on the worker thread, and the        *)
(* disconnect task with its completion callback on the one-thread pool.    *)
(* A slot runs from its first statement to its last before the next slot   *)
(* starts; the pool runs the submitted tasks in order, at the same time as *)
(* the slots.  A step is one access to self.connected, self.presence or a  *)
(* future.                                                                 *)
(***************************************************************************)
MaxSlotCalls == 3

Threads == {"worker", "pool"}

Running(t) == IF t = "worker" THEN worker ELSE pool

\* the event loop of the worker thread is between two slots
SlotMayStart == worker = Idle /\ slots < MaxSlotCalls

\* the test `self.connected and self.presence` (lines 140, 197, 212, 221):
\* self.presence is read only when self.connected is true, and reading it
\* after del self.presence raises AttributeError
Guard ==
    IF ~connected THEN "no"
    ELSE IF presence = Deleted THEN "raises"
    ELSE IF presence = None THEN "no"
    ELSE "yes"

\* lines 77-79: connect_to_discord returns at once when already connected
connect_to_discord ==
    /\ SlotMayStart
    /\ slots' = slots + 1
    /\ worker' = IF connected THEN Idle ELSE At("connect", "create", None, 0)
    /\ UNCHANGED <<connected, presence, released, rpc_made, pool, futures, seen>>
    /\ UNCHANGED <<matcher_vars, cache_vars, toast_vars>>

\* lines 87, 115-117: discordrpc.RPC(...) gives the new object, or raises
\* DiscordNotOpened and leaves self.presence as it was
connect_create_rpc ==
    /\ worker.slot = "connect"
    /\ worker.pc = "create"
    /\ \E opened \in BOOLEAN :
        IF opened
        THEN /\ presence' = RpcObject(rpc_made + 1)
             /\ rpc_made' = rpc_made + 1
             /\ worker' = At("connect", "set_activity", None, 0)
             /\ UNCHANGED connected
        ELSE /\ connected' = FALSE
             /\ worker' = Idle
             /\ UNCHANGED <<presence, rpc_made>>
    /\ UNCHANGED <<released, pool, futures, slots, seen>>
    /\ UNCHANGED <<matcher_vars, cache_vars, toast_vars>>

\* lines 108, 118-123: self.presence.set_activity(...) is the connection test;
\* any exception sets connected to False and keeps self.presence
connect_set_activity ==
    /\ worker.slot = "connect"
    /\ worker.pc = "set_activity"
    /\ \E accepted \in BOOLEAN :
        IF HasPresence /\ accepted
        THEN /\ worker' = At("connect", "connected", None, 0)
             /\ UNCHANGED connected
        ELSE /\ connected' = FALSE
             /\ worker' = Idle
    /\ UNCHANGED <<presence, released, rpc_made, pool, futures, slots, seen>>
    /\ UNCHANGED <<matcher_vars, cache_vars, toast_vars>>

\* line 111: self.connected = True
connect_set_connected ==
    /\ worker.slot = "connect"
    /\ worker.pc = "connected"
    /\ connected' = TRUE
    /\ worker' = Idle
    /\ UNCHANGED <<presence, released, rpc_made, pool, futures, slots, seen>>
    /\ UNCHANGED <<matcher_vars, cache_vars, toast_vars>>

\* lines 140-141: the test of update_presence stands outside the try
update_presence ==
    /\ SlotMayStart
    /\ slots' = slots + 1
    /\ worker' = IF Guard = "yes" THEN At("update", "load", None, 0) ELSE Idle
    /\ seen' = [seen EXCEPT !.uncaught = @ \/ Guard = "raises"]
    /\ UNCHANGED <<connected, presence, released, rpc_made, pool, futures>>
    /\ UNCHANGED <<matcher_vars, cache_vars, toast_vars>>

\* line 197: the test of clear_presence stands outside the try
clear_presence ==
    /\ SlotMayStart
    /\ slots' = slots + 1
    /\ worker' = IF Guard = "yes" THEN At("clear", "load", None, 0) ELSE Idle
    /\ seen' = [seen EXCEPT !.uncaught = @ \/ Guard = "raises"]
    /\ UNCHANGED <<connected, presence, released, rpc_made, pool, futures>>
    /\ UNCHANGED <<matcher_vars, cache_vars, toast_vars>>

\* line 212: the test of disconnect_from_discord stands outside the try; when
\* it raises, the slot ends before it submits the task
disconnect_from_discord ==
    /\ SlotMayStart
    /\ slots' = slots + 1
    /\ worker' = CASE Guard = "yes" -> At("disconnect", "load", None, 0)
                   [] Guard = "no" -> At("disconnect", "submit", None, 0)
                   [] OTHER -> Idle
    /\ seen' = [seen EXCEPT !.calls = @ + 1, !.uncaught = @ \/ Guard = "raises"]
    /\ UNCHANGED <<connected, presence, released, rpc_made, pool, futures>>
    /\ UNCHANGED <<matcher_vars, cache_vars, toast_vars>>

\* where a slot goes on after its try block: disconnect_from_discord submits
\* the task (line 248), update_presence and clear_presence return
AfterTry(w) == IF w.slot = "disconnect" THEN At("disconnect", "submit", None, 0) ELSE Idle

\* lines 182, 199, 214: self.presence is read for the call; an AttributeError
\* (attribute deleted, or None) is caught by the except of the slot
slot_load_presence ==
    /\ worker.slot \in {"update", "clear", "disconnect"}
    /\ worker.pc = "load"
    /\ worker' = IF HasPresence THEN At(worker.slot, "call", presence, 0) ELSE AfterTry(worker)
    /\ UNCHANGED <<connected, presence, released, rpc_made, pool, futures, slots, seen>>
    /\ UNCHANGED <<matcher_vars, cache_vars, toast_vars>>

\* lines 182, 199, 214: set_activity or clear is called on the object read
slot_call_presence ==
    /\ worker.slot \in {"update", "clear", "disconnect"}
    /\ worker.pc = "call"
    /\ seen' = [seen EXCEPT !.called_released =
                    @ \/ (worker.slot \in {"update", "clear"} /\ worker.ref \in released)]
    /\ worker' = AfterTry(worker)
    /\ UNCHANGED <<connected, presence, released, rpc_made, pool, futures, slots>>
    /\ UNCHANGED <<matcher_vars, cache_vars, toast_vars>>

NewFuture == [state |-> "queued", callback |-> FALSE]

\* line 248: self._disconnect_pool.submit(_perform_disconnect_task)
disconnect_submit ==
    /\ worker.slot = "disconnect"
    /\ worker.pc = "submit"
    /\ futures' = Append(futures, NewFuture)
    /\ worker' = At("disconnect", "add_done_callback", None, Len(futures) + 1)
    /\ UNCHANGED <<connected, presence, released, rpc_made, pool, slots, seen>>
    /\ UNCHANGED <<matcher_vars, cache_vars, toast_vars>>

\* line 249: future.add_done_callback(_on_disconnect_finished) runs the
\* callback at once, in the calling thread, when the future is already done
disconnect_add_done_callback ==
    /\ worker.slot = "disconnect"
    /\ worker.pc = "add_done_callback"
    /\ IF futures[worker.call].state = "finished"
       THEN /\ worker' = At("disconnect", "callback", None, worker.call)
            /\ UNCHANGED futures
       ELSE /\ futures' = [futures EXCEPT ![worker.call].callback = TRUE]
            /\ worker' = Idle
    /\ UNCHANGED <<connected, presence, released, rpc_made, pool, slots, seen>>
    /\ UNCHANGED <<matcher_vars, cache_vars, toast_vars>>

\* the future the pool thread takes next: the oldest one still queued
FirstQueued ==
    LET queued == {i \in 1..Len(futures) : futures[i].state = "queued"}
    IN  IF queued = {} THEN 0 ELSE CHOOSE i \in queued : \A k \in queued : i <= k

\* line 221: the pool thread starts _perform_disconnect_task; when not
\* connected, or without a presence, it goes straight to line 235
_perform_disconnect_task ==
    /\ pool = Idle
    /\ FirstQueued # 0
    /\ futures' = [futures EXCEPT ![FirstQueued].state = "running"]
    /\ pool' = At("task", IF Guard = "yes" THEN "clear" ELSE "return", None, FirstQueued)
    /\ UNCHANGED <<connected, presence, released, rpc_made, worker, slots, seen>>
    /\ UNCHANGED <<matcher_vars, cache_vars, toast_vars>>

\* lines 225-229: self.presence.clear(), whatever it raises is caught
task_clear ==
    /\ pool.slot = "task"
    /\ pool.pc = "clear"
    /\ pool' = [pool EXCEPT !.pc = "finally"]
    /\ UNCHANGED <<connected, presence, released, rpc_made, worker, futures, slots, seen>>
    /\ UNCHANGED <<matcher_vars, cache_vars, toast_vars>>

\* line 232: if self.presence
task_finally ==
    /\ pool.slot = "task"
    /\ pool.pc = "finally"
    /\ pool' = [pool EXCEPT !.pc = IF HasPresence THEN "del" ELSE "return"]
    /\ UNCHANGED <<connected, presence, released, rpc_made, worker, futures, slots, seen>>
    /\ UNCHANGED <<matcher_vars, cache_vars, toast_vars>>

\* line 233: del self.presence releases the object
task_del ==
    /\ pool.slot = "task"
    /\ pool.pc = "del"
    /\ released' = released \cup ({presence} \ {None, Deleted})
    /\ presence' = Deleted
    /\ pool' = [pool EXCEPT !.pc = "set_none"]
    /\ UNCHANGED <<connected, rpc_made, worker, futures, slots, seen>>
    /\ UNCHANGED <<matcher_vars, cache_vars, toast_vars>>

\* line 234: self.presence = None
task_set_none ==
    /\ pool.slot = "task"
    /\ pool.pc = "set_none"
    /\ presence' = None
    /\ pool' = [pool EXCEPT !.pc = "return"]
    /\ UNCHANGED <<connected, released, rpc_made, worker, futures, slots, seen>>
    /\ UNCHANGED <<matcher_vars, cache_vars, toast_vars>>

\* lines 226, 229, 235: the task returns; the pool thread runs the callback
\* when it is already registered
task_return ==
    /\ pool.slot = "task"
    /\ pool.pc = "return"
    /\ futures' = [futures EXCEPT ![pool.call].state = "finished"]
    /\ pool' = IF futures[pool.call].callback THEN At("task", "callback", None, pool.call)
               ELSE Idle
    /\ UNCHANGED <<connected, presence, released, rpc_made, worker, slots, seen>>
    /\ UNCHANGED <<matcher_vars, cache_vars, toast_vars>>

\* the position of a thread after a step of the callback
after_callback_step(now) == IF now.pc = "callback" THEN [now EXCEPT !.pc = "emit"] ELSE Idle

\* lines 239-244: _on_disconnect_finished reports the result, then
\* self.connected = False
_on_disconnect_finished(t) ==
    /\ Running(t).pc = "callback"
    /\ connected' = FALSE
    /\ worker' = IF t = "worker" THEN after_callback_step(worker) ELSE worker
    /\ pool' = IF t = "pool" THEN after_callback_step(pool) ELSE pool
    /\ UNCHANGED <<presence, released, rpc_made, futures, slots, seen>>
    /\ UNCHANGED <<matcher_vars, cache_vars, toast_vars>>

\* line 246: self.disconnected.emit()
emit_disconnected(t) ==
    /\ Running(t).pc = "emit"
    /\ seen' = [seen EXCEPT !.emitted = @ + 1,
                            !.emitted_connected = @ \/ connected,
                            !.emitted_presence = @ \/ presence # None]
    /\ worker' = IF t = "worker" THEN after_callback_step(worker) ELSE worker
    /\ pool' = IF t = "pool" THEN after_callback_step(pool) ELSE pool
    /\ UNCHANGED <<connected, presence, released, rpc_made, futures, slots>>
    /\ UNCHANGED <<matcher_vars, cache_vars, toast_vars>>

InitPresence ==
    /\ MatcherIdle
    /\ CacheIdle
    /\ ToastIdle
    /\ PresenceIdle

WorkerStep ==
    \/ connect_create_rpc
    \/ connect_set_activity
    \/ connect_set_connected
    \/ slot_load_presence
    \/ slot_call_presence
    \/ disconnect_submit
    \/ disconnect_add_done_callback
    \/ _on_disconnect_finished("worker")
    \/ emit_disconnected("worker")

PoolStep ==
    \/ _perform_disconnect_task
    \/ task_clear
    \/ task_finally
    \/ task_del
    \/ task_set_none
    \/ task_return
    \/ _on_disconnect_finished("pool")
    \/ emit_disconnected("pool")

NextPresence ==
    \/ connect_to_discord
    \/ update_presence
    \/ clear_presence
    \/ disconnect_from_discord
    \/ WorkerStep
    \/ PoolStep

SpecPresence == InitPresence /\ [][NextPresence]_vars

\* both threads keep running: a slot that has started and a task that has
\* been submitted are carried on to their end
SpecPresenceFair == SpecPresence /\ WF_vars(WorkerStep) /\ WF_vars(PoolStep)

(***************************************************************************)
(* The toasts of the ToastManager.  All of it runs on the GUI thread, one   *)
(* call, timer or animation signal at a time.  A toast in active_toasts has *)
(* been shown and is visible until its slide-out animation has finished.    *)
(***************************************************************************)
MaxHeld == 6

\* lines 26-29: ToastNotification.INFO, SUCCESS, WARNING, ERROR
ToastTypes == {"info", "success", "warning", "error"}

\* lines 494, 501: a new toast, shown and not yet sliding out
ToastNotification(toast_type) == [toast_type |-> toast_type, sliding_out |-> FALSE]

\* lines 167-180: hide_toast starts the slide-out of a visible toast (again,
\* when it is already sliding out); the toast stays in active_toasts
hide_toast(toasts, i) == [toasts EXCEPT ![i].sliding_out = TRUE]

\* lines 488-505: at capacity the oldest toast is told to hide, then the new
\* toast is appended and shown
_show_toast(toast_type) ==
    /\ Len(active_toasts) < MaxHeld
    /\ active_toasts' =
           Append(IF Len(active_toasts) >= max_toasts THEN hide_toast(active_toasts, 1)
                  ELSE active_toasts,
                  ToastNotification(toast_type))
    /\ UNCHANGED <<matcher_vars, cache_vars, presence_vars>>

\* lines 439-441
show_info == _show_toast("info")

\* lines 443-445
show_success == _show_toast("success")

\* lines 447-449
show_warning == _show_toast("warning")

\* lines 451-453
show_error == _show_toast("error")

\* lines 164-165: the auto-hide timer of a toast calls hide_toast
toast_timeout ==
    /\ \E i \in 1..Len(active_toasts) :
        /\ ~active_toasts[i].sliding_out
        /\ active_toasts' = hide_toast(active_toasts, i)
    /\ UNCHANGED <<matcher_vars, cache_vars, presence_vars>>

\* list.remove of the toast at position i
remove(toasts, i) == SubSeq(toasts, 1, i - 1) \o SubSeq(toasts, i + 1, Len(toasts))

\* lines 182-186, 537-542: the slide-out has finished, the toast emits closed
\* and _on_toast_closed removes it from active_toasts
_on_slide_out_finished ==
    /\ \E i \in 1..Len(active_toasts) :
        /\ active_toasts[i].sliding_out
        /\ active_toasts' = remove(active_toasts, i)
    /\ UNCHANGED <<matcher_vars, cache_vars, presence_vars>>

InitToast ==
    /\ MatcherIdle
    /\ CacheIdle
    /\ PresenceIdle
    /\ ToastIdle

NextToast ==
    \/ show_info
    \/ show_success
    \/ show_warning
    \/ show_error
    \/ toast_timeout
    \/ _on_slide_out_finished

SpecToast == InitToast /\ [][NextToast]_vars

(***************************************************************************)
(* Properties                                                              *)
(***************************************************************************)
Done == pc = "done"

\* the variants one call visits when it reaches the loops
Variants == variants_from(discord_apps, 1)

\* the entries with a name where the name or an alias equals the query once both
\* are trimmed and case-folded
ExactEntries ==
    {i \in 1..Len(discord_apps) :
        /\ Truthy(discord_apps[i].name)
        /\ \E k \in 1..Len(names_of(discord_apps[i])) :
               _norm(names_of(discord_apps[i])[k]) = _norm(game_name)}

FirstExact == CHOOSE i \in ExactEntries : \A j \in ExactEntries : i <= j

\* every exact variant has been scored, with score 1.0
ExactScoredOne ==
    \A i \in ExactEntries :
        \A k \in 1..Len(names_of(discord_apps[i])) :
            _norm(names_of(discord_apps[i])[k]) = _norm(game_name)
            => \E n \in 1..Len(scored) :
                   /\ scored[n].app = i
                   /\ scored[n].name = names_of(discord_apps[i])[k]
                   /\ scored[n].score = <<1, 1>>

\* C1 (as claimed): an empty or whitespace-only query, or an empty catalog, makes
\* the call return None without scoring any candidate.
C1_BlankQueryOrEmptyCatalogReturnsNone ==
    (strip(game_name) = <<>> \/ discord_apps = <<>>)
    => (scored = <<>> /\ (Done => result = None))

\* C2 (as claimed): whenever some named entry has an exact variant and the
\* threshold is at most 1.0, that variant scores 1.0 and the first such entry wins.
C2_ExactMatchWins ==
    (Done /\ RLe(threshold, <<1, 1>>) /\ ExactEntries # {})
    => (ExactScoredOne /\ best_match = FirstExact)

\* C2 (amended): for a non-empty query and a threshold of at most 1.0, every exact
\* variant of a named entry scores exactly 1.0 and the winning entry is the first
\* entry in catalog order that has an exact variant.
C2_ExactMatchWinsNonEmptyQuery ==
    (Done /\ Truthy(game_name) /\ RLe(threshold, <<1, 1>>) /\ ExactEntries # {})
    => (ExactScoredOne /\ best_match = FirstExact)

\* C2 witness: two entries both have an exact variant and the first one has won.
C2_Witness ==
    /\ Done
    /\ Truthy(game_name)
    /\ Cardinality(ExactEntries) >= 2
    /\ best_match = FirstExact
    /\ best_score = <<1, 1>>

\* C3: if no variant of any entry scores at least the threshold, the call completes
\* and returns None.
C3_NoVariantMeetsThresholdReturnsNone ==
    (Done /\ \A k \in 1..Len(Variants) :
                 ~RLe(threshold, variant_score(game_name, Variants[k].name)))
    => result = None

\* C3 witness: variants were scored, all below the threshold, among them one of an
\* entry that has an image, and the call returned None.
C3_Witness ==
    /\ Done
    /\ result = None
    /\ scored # <<>>
    /\ \A n \in 1..Len(scored) : ~RLe(threshold, scored[n].score)
    /\ \E n \in 1..Len(scored) :
           /\ RLt(<<0, 1>>, scored[n].score)
           /\ image_url(discord_apps[scored[n].app], size) # None

\* the scored variants whose score meets the threshold
Qualifying == {n \in 1..Len(scored) : RLe(threshold, scored[n].score)}

\* the scored variants whose score meets the threshold and is positive
QualifyingPositive == {n \in Qualifying : RLt(<<0, 1>>, scored[n].score)}

Least(S) == CHOOSE n \in S : \A m \in S : n <= m

\* C4 (as claimed): the first variant whose score meets the threshold becomes the
\* initial best, so a best match exists as soon as some scored variant meets the
\* threshold, for every threshold.
C4_FirstQualifyingBecomesBest ==
    Qualifying # {}
    => /\ best_match # 0
       /\ Len(scored) = Least(Qualifying)
          => /\ best_match = scored[Len(scored)].app
             /\ best_score = scored[Len(scored)].score

\* C4 (amended): the first variant whose score meets the threshold and is greater
\* than 0 becomes the initial best, so for every threshold, including 0, a best
\* match exists as soon as some scored variant has a positive score that meets the
\* threshold.
C4_FirstPositiveQualifyingBecomesBest ==
    QualifyingPositive # {}
    => /\ best_match # 0
       /\ Len(scored) = Least(QualifyingPositive)
          => /\ best_match = scored[Len(scored)].app
             /\ best_score = scored[Len(scored)].score

\* C4 witness: with threshold 0 the first scored variant has score 0 and is passed
\* over, and a later variant with a positive score has been selected.
C4_Witness ==
    /\ Done
    /\ threshold = <<0, 1>>
    /\ scored # <<>>
    /\ scored[1].score = <<0, 1>>
    /\ best_match # 0
    /\ best_match = scored[Least(QualifyingPositive)].app

\* the earliest of the scored variants in S that attains the maximum score of S
EarliestMax(S) ==
    CHOOSE n \in S :
        \A m \in S : RLt(scored[m].score, scored[n].score)
                     \/ (scored[m].score = scored[n].score /\ n <= m)

\* the catalog in another order
Reordered(f) == [k \in 1..Len(discord_apps) |-> discord_apps[f[k]]]

Orders == {f \in [1..Len(discord_apps) -> 1..Len(discord_apps)] :
              \A a, b \in 1..Len(discord_apps) : f[a] = f[b] => a = b}

\* entry i has a scored variant that attains the score of the running best
TiedAtBest(i) == \E n \in 1..Len(scored) : scored[n].app = i /\ scored[n].score = best_score

\* whatever the order of the catalog, the winner is an entry tied at the best score
OrderOnlyBreaksTies ==
    \A f \in Orders :
        LET w == winner(game_name, Reordered(f), threshold)
        IN  IF best_match = 0 THEN w = 0 ELSE w # 0 /\ TiedAtBest(f[w])

\* C5 (as claimed): after every prefix of the variants the running best is the
\* entry of the earliest variant with the maximum score among the processed
\* variants whose score meets the threshold, and the order of the catalog only
\* decides between entries tied at that maximum.
C5_BestIsEarliestMaxOfQualifying ==
    /\ IF Qualifying = {} THEN best_match = 0
       ELSE /\ best_match = scored[EarliestMax(Qualifying)].app
            /\ best_score = scored[EarliestMax(Qualifying)].score
    /\ (Done /\ ~early_exit(game_name, discord_apps)) => OrderOnlyBreaksTies

\* C5 (amended): after every prefix of the variants the running best is the entry
\* of the earliest variant with the maximum score among the processed variants
\* whose score meets the threshold and is greater than 0 (none if there is no such
\* variant), and the order of the catalog only decides between entries tied at
\* that maximum.
C5_BestIsEarliestMaxOfPositiveQualifying ==
    /\ IF QualifyingPositive = {} THEN best_match = 0
       ELSE /\ best_match = scored[EarliestMax(QualifyingPositive)].app
            /\ best_score = scored[EarliestMax(QualifyingPositive)].score
    /\ (Done /\ ~early_exit(game_name, discord_apps)) => OrderOnlyBreaksTies

\* C5 witness: two entries are tied at the maximum score, a variant with a lower
\* score that meets the threshold was scored as well, and the earlier entry won.
C5_Witness ==
    /\ Done
    /\ \E m, n \in 1..Len(scored) :
           /\ m < n
           /\ scored[m].app # scored[n].app
           /\ scored[m].score = best_score
           /\ scored[n].score = best_score
           /\ best_match = scored[m].app
    /\ \E n \in QualifyingPositive : RLt(scored[n].score, best_score)

\* C6: a call that returns None returns None for every greater threshold too.
C6_NoneStaysNoneAtGreaterThreshold ==
    (Done /\ result = None)
    => \A t2 \in Thresholds :
           RLt(threshold, t2)
           => resolve_discord_game_image_improved(game_name, discord_apps, t2, size) = None

\* C6 witness: the call matched an entry without an image, so it returned None with
\* a match, and a greater threshold exists under which the same entry still wins.
C6_Witness ==
    /\ Done
    /\ result = None
    /\ best_match # 0
    /\ \E t2 \in Thresholds :
           RLt(threshold, t2) /\ winner(game_name, discord_apps, t2) = best_match

\* C7 (as claimed): every variant scored by the substring rule has a score
\* strictly greater than 0.8 and at most 0.9.
C7_SubstringScoreBound ==
    \A n \in 1..Len(scored) :
        score_rule(game_name, scored[n].name) = 4
        => RLt(<<4, 5>>, scored[n].score) /\ RLe(scored[n].score, <<9, 10>>)

\* C8: a winning entry with an id, a cover_image and an icon_hash yields the cover
\* URL, and "Elden Ring" against {name "ELDEN RING", id "123", cover_image "abc"}
\* with the default size yields the app-assets URL with size=512.
C8_CoverPreferred ==
    /\ (/\ Done
        /\ best_match # 0
        /\ TruthyTok(discord_apps[best_match].id)
        /\ TruthyTok(discord_apps[best_match].cover_image)
        /\ TruthyTok(discord_apps[best_match].icon_hash))
       => result = "https://cdn.discordapp.com/app-assets/" \o discord_apps[best_match].id
                       \o "/" \o discord_apps[best_match].cover_image
                       \o ".png?size=" \o ToString(size)
    /\ (/\ Done
        /\ game_name = q_elden
        /\ Len(discord_apps) = 1
        /\ discord_apps[1].name = <<"E", "L", "D", "E", "N", " ", "R", "I", "N", "G">>
        /\ threshold = DefaultThreshold
        /\ size = DefaultSize)
       => result = "https://cdn.discordapp.com/app-assets/123/abc.png?size=512"

\* C8 witness: an entry with an id and both tokens has won and a URL was returned.
C8_Witness ==
    /\ Done
    /\ best_match # 0
    /\ TruthyTok(discord_apps[best_match].id)
    /\ TruthyTok(discord_apps[best_match].cover_image)
    /\ TruthyTok(discord_apps[best_match].icon_hash)
    /\ result # None

\* C9: a winning entry without an id yields None, whatever its image tokens.
C9_NoIdReturnsNone ==
    (Done /\ best_match # 0 /\ ~TruthyTok(discord_apps[best_match].id))
    => result = None

\* C9 witness: the winning entry has both image tokens and no id.
C9_Witness ==
    /\ Done
    /\ best_match # 0
    /\ discord_apps[best_match].id = None
    /\ TruthyTok(discord_apps[best_match].cover_image)
    /\ TruthyTok(discord_apps[best_match].icon_hash)
    /\ result = None

HasImage(i) == image_url(discord_apps[i], size) # None

\* C10: a winning entry with an id, no cover_image and an icon_hash yields the icon
\* URL; a winning entry with an id and neither token yields None, and no other
\* entry is used in its place.
C10_IconFallback ==
    (Done /\ best_match # 0 /\ TruthyTok(discord_apps[best_match].id)
          /\ ~TruthyTok(discord_apps[best_match].cover_image))
    => IF TruthyTok(discord_apps[best_match].icon_hash)
       THEN result = "https://cdn.discordapp.com/app-icons/" \o discord_apps[best_match].id
                         \o "/" \o discord_apps[best_match].icon_hash
                         \o ".png?size=" \o ToString(size)
       ELSE result = None

\* C10 witness: the winner has an id and no token, another entry that has an image
\* scored at least the threshold, and the call returned None.
C10_Witness ==
    /\ Done
    /\ best_match # 0
    /\ TruthyTok(discord_apps[best_match].id)
    /\ ~TruthyTok(discord_apps[best_match].cover_image)
    /\ ~TruthyTok(discord_apps[best_match].icon_hash)
    /\ result = None
    /\ \E n \in Qualifying : scored[n].app # best_match /\ HasImage(scored[n].app)

\* C11 (as claimed): a call never raises, whatever fields of the entries are
\* missing, None or empty and whatever elements aliases holds, None and non-str
\* ones included; it completes with a URL or None.
C11_NeverRaises == pc # "raised"

\* the arguments of the completed call h are those of the current call
SameArguments(h) ==
    /\ h.game_name = game_name
    /\ h.discord_apps = discord_apps
    /\ h.threshold = threshold
    /\ h.size = size

\* C12: a call returns what every earlier call with the same query, catalog,
\* threshold and size returned, whatever calls were made in between.
C12_SameArgumentsSameResult ==
    Done => \A n \in 1..Len(history) :
                SameArguments(history[n]) => history[n].result = result

\* a third call repeats the first after a different call with a different
\* result, and returns a URL
C12_Witness ==
    /\ Done
    /\ Len(history) = 2
    /\ SameArguments(history[1])
    /\ ~SameArguments(history[2])
    /\ history[2].result # result
    /\ result # None

BothDone == Done /\ other.pc = "done"

\* C13: no step of a call changes the catalog, an entry or an aliases sequence,
\* and two calls that interleave their steps on the same catalog each return
\* what they return when run alone, one after the other.
C13_CatalogUnchangedInterleavingsAgree ==
    /\ [][discord_apps' = discord_apps]_vars
    /\ [](BothDone =>
             /\ result = resolve_discord_game_image_improved(game_name, discord_apps,
                                                             threshold, size)
             /\ other.result = resolve_discord_game_image_improved(other.game_name,
                                   discord_apps, other.threshold, other.size))

\* both calls are inside the loops at once, at different entries of a catalog
\* whose entries have aliases, each with a variant still to score
C13_Witness ==
    /\ pc = "for_name"
    /\ other.pc = "for_name"
    /\ app_i # other.app_i
    /\ name_j = 1
    /\ other.name_j = 1
    /\ Len(names_to_check) > 1
    /\ Len(other.names_to_check) > 1

InUnit(x) == RLe(<<0, 1>>, x) /\ RLe(x, <<1, 1>>)

\* C14: every score a variant receives lies in [0, 1], and so does the running
\* best score in every state of the loops.
C14_ScoresInUnitInterval ==
    /\ InUnit(best_score)
    /\ \A n \in 1..Len(scored) : InUnit(scored[n].score)

\* two variants are scored, the first by the fallback strictly between 0 and 1,
\* and its score is the running best
C14_Witness ==
    /\ Len(scored) = 2
    /\ \E n \in {1} :
           /\ score_rule(game_name, scored[n].name) = 5
           /\ RLt(<<0, 1>>, scored[n].score)
           /\ RLt(scored[n].score, <<1, 1>>)
           /\ best_score = scored[n].score

\* written out from the catalog: for each entry from i on that has a non-empty
\* name, the name and then each alias
RECURSIVE Enumerated(_)
Enumerated(i) ==
    IF i > Len(discord_apps) THEN <<>>
    ELSE (IF discord_apps[i].name \notin {<<>>, NoneStr}
          THEN << [app |-> i, name |-> discord_apps[i].name] >>
                   \o [k \in 1..Len(discord_apps[i].aliases) |->
                          [app |-> i, name |-> discord_apps[i].aliases[k]]]
          ELSE <<>>) \o Enumerated(i + 1)

ScoredVariants == [n \in 1..Len(scored) |-> [app |-> scored[n].app, name |-> scored[n].name]]

\* C15: the variants are scored in the order name, aliases of each entry that has
\* a non-empty name, in catalog order, and a call that passes the early return
\* scores all of them; the winner is an entry with a name and wins with the
\* score of one of its variants, so an entry without a name never wins.
C15_VariantsAreNameThenAliasesOfNamedEntries ==
    /\ Len(scored) <= Len(Enumerated(1))
    /\ ScoredVariants = SubSeq(Enumerated(1), 1, Len(scored))
    /\ (Done /\ game_name # <<>>) => ScoredVariants = Enumerated(1)
    /\ best_match # 0 =>
           /\ discord_apps[best_match].name \notin {<<>>, NoneStr}
           /\ \E n \in 1..Len(scored) :
                  scored[n].app = best_match /\ scored[n].score = best_score

\* the catalog has an entry without a name whose alias is the query, and the
\* winner wins through an alias while its own name stays below the threshold
C15_Witness ==
    /\ Done
    /\ \E i \in 1..Len(discord_apps) :
           /\ discord_apps[i].name = <<>>
           /\ \E k \in 1..Len(discord_apps[i].aliases) :
                  discord_apps[i].aliases[k] = game_name
    /\ best_match # 0
    /\ \E n \in 1..Len(scored) :
           /\ scored[n].app = best_match
           /\ scored[n].name = discord_apps[best_match].name
           /\ ~RLe(threshold, scored[n].score)
    /\ \E n \in 1..Len(scored) :
           /\ scored[n].app = best_match
           /\ scored[n].name \in {discord_apps[best_match].aliases[k] :
                                     k \in 1..Len(discord_apps[best_match].aliases)}
           /\ scored[n].score = best_score

\* the call of the Counter-Strike scenario has returned
ScenarioB ==
    /\ Done
    /\ game_name = q_cs2
    /\ discord_apps = catalog_csgo
    /\ threshold = DefaultThreshold

\* C16 (as claimed): for the query "Counter-Strike 2", the catalog of the one
\* entry "Counter-Strike: Global Offensive" with alias "CS2", id "7" and icon
\* "icon1", and threshold 0.6, no variant reaches the threshold and the call
\* returns None.
C16_ScenarioBReturnsNone ==
    ScenarioB =>
        /\ \A n \in 1..Len(scored) : ~RLe(threshold, scored[n].score)
        /\ result = None

\* C16 (amended): in that call the name is scored 14/15 by the fallback, the
\* similarity of "counter-strike 2" to the core name "counter-strike", the
\* alias "CS2" is scored 6/19, and the call returns the icon URL of entry "7".
C16_ScenarioBReturnsIconUrl ==
    ScenarioB =>
        /\ Len(scored) = 2
        /\ scored[1].name = n_csgo
        /\ scored[1].score = <<14, 15>>
        /\ scored[2].name = n_cs2
        /\ scored[2].score = <<6, 19>>
        /\ best_match = 1
        /\ best_score = <<14, 15>>
        /\ result = "https://cdn.discordapp.com/app-icons/7/icon1.png?size=512"

C16_Witness == ScenarioB /\ result # None

\* what the rules compare, for the query and a catalog name c
NormEqual(c) == _norm(game_name) = _norm(c)

CleanEqual(c) == _clean_game_name(game_name) = _clean_game_name(c)

CoreEqual(c) ==
    /\ _norm(_extract_core_name(game_name)) # <<>>
    /\ _norm(_extract_core_name(game_name)) = _norm(_extract_core_name(c))

Contained(c) ==
    \/ contains(_norm(game_name), _norm(c))
    \/ contains(_norm(c), _norm(game_name))

\* x is 0.8 + 0.1 * shorter / longer for the normalised query and name
IsSubstringScore(x, c) ==
    LET m == Len(_norm(game_name))
        n == Len(_norm(c))
    IN  x[1] * 10 * Max(m, n) = x[2] * (8 * Max(m, n) + Min(m, n))

\* C17: the score of a variant is that of the first rule that applies, in the
\* order exact 1.0, clean-equal 0.95, core-equal with non-empty cores 0.90,
\* substring containment, fallback composite, whatever later rules would give.
C17_FirstApplicableRuleScores ==
    \A n \in 1..Len(scored) :
        LET c == scored[n].name
            x == scored[n].score
        IN  /\ NormEqual(c) => x = <<1, 1>>
            /\ (~NormEqual(c) /\ CleanEqual(c)) => x = <<19, 20>>
            /\ (~NormEqual(c) /\ ~CleanEqual(c) /\ CoreEqual(c)) => x = <<9, 10>>
            /\ (~NormEqual(c) /\ ~CleanEqual(c) /\ ~CoreEqual(c) /\ Contained(c))
                   => IsSubstringScore(x, c)
            /\ (~NormEqual(c) /\ ~CleanEqual(c) /\ ~CoreEqual(c) /\ ~Contained(c))
                   => x = fallback_score(game_name, c)

\* a variant whose normalised form differs from the query's, with equal
\* non-empty cleaned forms, equal cores and one name inside the other, scored
\* 0.95
C17_Witness ==
    \E n \in 1..Len(scored) :
        /\ ~NormEqual(scored[n].name)
        /\ CleanEqual(scored[n].name)
        /\ _clean_game_name(game_name) # <<>>
        /\ CoreEqual(scored[n].name)
        /\ Contained(scored[n].name)
        /\ scored[n].score = <<19, 20>>

\* C18 (as claimed): a variant whose normalised form differs from the query's
\* and whose cleaned form and the query's are both empty is not scored 0.95.
C18_BothEmptyCleanNotScoredByCleanRule ==
    \A n \in 1..Len(scored) :
        (/\ ~NormEqual(scored[n].name)
         /\ _clean_game_name(game_name) = <<>>
         /\ _clean_game_name(scored[n].name) = <<>>)
            => scored[n].score # <<19, 20>>

\* the separators of the core name, and the places where one of them starts
SeparatorSet == {<<":">>, <<" ", "-", " ">>, <<"<endash>">>, <<"<emdash>">>}

SeparatorStarts(name) ==
    {p \in 1..Len(name) :
        \E sep \in SeparatorSet :
            /\ p + Len(sep) - 1 <= Len(name)
            /\ SubSeq(name, p, p + Len(sep) - 1) = sep}

\* the trimmed text before the leftmost separator; the name itself without one
LeftmostCore(name) ==
    IF SeparatorStarts(name) = {} THEN name
    ELSE strip(SubSeq(name, 1, Least(SeparatorStarts(name)) - 1))

\* the names a call has compared so far: the query and the variants scored
ComparedNames ==
    IF scored = <<>> THEN {} ELSE {game_name} \cup {scored[n].name : n \in 1..Len(scored)}

\* C19 (as claimed): the core name of a name is the trimmed text before the
\* leftmost occurrence of any separator, and the name itself if it has none.
C19_CoreIsTextBeforeLeftmostSeparator ==
    \A name \in ComparedNames : _extract_core_name(name) = LeftmostCore(name)

\* the last word of a name, and whether it is the word "edition" in some case
LastWord(name) == split(name)[Len(split(name))]

EndsInEditionWord(name) ==
    /\ Len(split(name)) > 1
    /\ name[Len(name)] \notin WhiteSpace
    /\ casefold(LastWord(name)) = <<"e", "d", "i", "t", "i", "o", "n">>

\* no other cleaning rule concerns the name: it is made of letters, digits and
\* white space, and none of its words is "remastered", "definitive" or "season"
PlainWords(name) ==
    /\ \A k \in 1..Len(name) :
           \/ name[k] \in WhiteSpace \cup Digits
           \/ \E l \in 1..Len(LowerCase) : name[k] \in {LowerCase[l], UpperCase[l]}
    /\ \A k \in 1..Len(split(name)) :
           casefold(split(name)[k]) \notin
               {<<"r", "e", "m", "a", "s", "t", "e", "r", "e", "d">>,
                <<"d", "e", "f", "i", "n", "i", "t", "i", "v", "e">>,
                <<"s", "e", "a", "s", "o", "n">>}

\* C20 (as claimed): cleaning removes a trailing word "Edition" in any letter
\* case, and leaves the last word intact when it only ends in those letters.
C20_EditionStrippedOnlyAsWholeWordAnyCase ==
    \A name \in ComparedNames :
        LET words == split(name)
            cleaned == split(_clean_game_name(name))
        IN  (words # <<>> /\ PlainWords(name))
            => IF EndsInEditionWord(name)
               THEN cleaned = [k \in 1..(Len(words) - 1) |-> casefold(words[k])]
               ELSE cleaned = [k \in 1..Len(words) |-> casefold(words[k])]

\* the phrase " Definitive Edition" and the names that end in it
DefinitiveEdition ==
    <<" ", "D", "e", "f", "i", "n", "i", "t", "i", "v", "e",
      " ", "E", "d", "i", "t", "i", "o", "n">>

EndsInDefinitiveEdition(name) ==
    /\ Len(name) > Len(DefinitiveEdition)
    /\ SubSeq(name, Len(name) - Len(DefinitiveEdition) + 1, Len(name)) = DefinitiveEdition

BaseTitle(name) == SubSeq(name, 1, Len(name) - Len(DefinitiveEdition))

\* C21 (as claimed): the cleaned form of "X Definitive Edition" is the cleaned
\* form of "X", and the two names score 0.95 against each other.
C21_DefinitiveEditionStrippedAsAWhole ==
    /\ \A name \in ComparedNames :
           EndsInDefinitiveEdition(name)
               => _clean_game_name(name) = _clean_game_name(BaseTitle(name))
    /\ \A n \in 1..Len(scored) :
           (\/ EndsInDefinitiveEdition(game_name) /\ scored[n].name = BaseTitle(game_name)
            \/ EndsInDefinitiveEdition(scored[n].name)
                   /\ game_name = BaseTitle(scored[n].name))
               => scored[n].score = <<19, 20>>

\* none of the rules 1-4 applies to the catalog name c
FallsThrough(c) == ~NormEqual(c) /\ ~CleanEqual(c) /\ ~CoreEqual(c) /\ ~Contained(c)

\* the largest of the similarity ratios of the normalised forms, the cleaned
\* forms and, when both are non-empty, the cores
SimilarityMax(c) ==
    LET coreQ == _norm(_extract_core_name(game_name))
        coreC == _norm(_extract_core_name(c))
        simNorm == _similarity_score(_norm(game_name), _norm(c))
        simClean == _similarity_score(_clean_game_name(game_name), _clean_game_name(c))
        simCore == IF coreQ # <<>> /\ coreC # <<>> THEN _similarity_score(coreQ, coreC)
                   ELSE <<0, 1>>
    IN  RMax(RMax(simNorm, simClean), simCore)

TokensIntersect(c) ==
    /\ _tokenize(game_name) # {}
    /\ _tokenize(c) # {}
    /\ _tokenize(game_name) \cap _tokenize(c) # {}

TokenDivisor(c) == Max(Cardinality(_tokenize(game_name)), Cardinality(_tokenize(c)))

\* 0.85 * |intersection| / max(|tokensQ|, |tokensC|)
TokenScore(c) ==
    Rat(17 * Cardinality(_tokenize(game_name) \cap _tokenize(c)), 20 * TokenDivisor(c))

\* C22: a variant that no rule 1-4 scores gets the similarity maximum, raised to
\* the weighted token share when the token sets are non-empty and intersect;
\* the divisor of the token share is then positive.
C22_FallbackIsSimilarityMaxOrTokenShare ==
    \A n \in 1..Len(scored) :
        FallsThrough(scored[n].name) =>
            IF TokensIntersect(scored[n].name)
            THEN /\ TokenDivisor(scored[n].name) > 0
                 /\ scored[n].score = RMax(SimilarityMax(scored[n].name),
                                           TokenScore(scored[n].name))
            ELSE scored[n].score = SimilarityMax(scored[n].name)

\* a variant scored by the fallback whose token share exceeds every similarity
\* ratio
C22_Witness ==
    \E n \in 1..Len(scored) :
        /\ FallsThrough(scored[n].name)
        /\ TokensIntersect(scored[n].name)
        /\ RLt(SimilarityMax(scored[n].name), scored[n].score)
        /\ scored[n].score = <<17, 20>>

\* C23: a variant is scored 1.0 exactly when its normalised form is the
\* query's; every other variant scores less, so it neither ties nor beats an
\* exact one.
C23_ScoreOneIffNormEqual ==
    \A n \in 1..Len(scored) :
        /\ scored[n].score = <<1, 1>> <=> NormEqual(scored[n].name)
        /\ ~NormEqual(scored[n].name) => RLt(scored[n].score, <<1, 1>>)

\* an entry whose alias is exact and whose other alias, not exact, has been
\* scored 0.9 before it: the running best is 1.0
C23_Witness ==
    /\ \E n \in 1..Len(scored) :
           ~NormEqual(scored[n].name) /\ scored[n].score = <<9, 10>>
    /\ \E n \in 1..Len(scored) :
           NormEqual(scored[n].name) /\ scored[n].score = <<1, 1>>
    /\ best_score = <<1, 1>>

\* the largest score among the scored variants, and the first variant with it
MaxScored ==
    scored[CHOOSE n \in 1..Len(scored) :
               \A m \in 1..Len(scored) : RLe(scored[m].score, scored[n].score)].score

FirstAtMax == Least({n \in 1..Len(scored) : scored[n].score = MaxScored})

\* the entry every threshold t selects: the one of the first variant with the
\* largest score when that score is positive and at least t, else none
SelectedAt(t) ==
    IF RLt(<<0, 1>>, MaxScored) /\ RLe(t, MaxScored) THEN scored[FirstAtMax].app ELSE 0

\* C24: for a fixed query and catalog the winner is the same entry at every
\* threshold up to the largest variant score, when that score is positive, and
\* no entry at every threshold above it.
C24_WinnerIndependentOfThreshold ==
    (Done /\ scored # <<>>) =>
        /\ best_match = SelectedAt(threshold)
        /\ \A t \in Thresholds : winner(game_name, discord_apps, t) = SelectedAt(t)

\* the winner is the second entry, with the largest score, while a variant of
\* the first entry also meets a threshold that is above 0
C24_Witness ==
    /\ Done
    /\ RLt(<<0, 1>>, threshold)
    /\ best_match = 2
    /\ \E n \in 1..Len(scored) :
           /\ scored[n].app = 1
           /\ RLe(threshold, scored[n].score)
           /\ RLt(scored[n].score, best_score)

\* the cache file held, when the last call was made, a non-empty list fetched
\* less than 12 hours before
FreshBefore ==
    /\ fetched.file_before.readable
    /\ fetched.file_before.apps # <<>>
    /\ fetched.at - fetched.file_before.fetched_at < 12 * 3600

\* a fresh cached list is returned without a request, and a failed request
\* returns the cached list, leaves the file as it was and raises nothing
CacheServedAndFailureTolerated ==
    /\ FreshBefore =>
           /\ ~fetched.requested
           /\ fetched.returned = fetched.file_before.apps
    /\ fetched.net = "failed" =>
           /\ fetched.returned = (IF fetched.file_before.readable
                                  THEN fetched.file_before.apps ELSE <<>>)
           /\ cache_file = fetched.file_before
           /\ ~fetched.raised

FinishedTasks == {i \in 1..Len(futures) : futures[i].state = "finished"}

\* C26: every call of disconnect_from_discord, connected or not, is
\* eventually followed by exactly one emission of disconnected: the n-th call
\* leads to the n-th emission, there are never more emissions than calls, an
\* emission comes only after the task of its call has finished, and connected
\* is False at the moment of every emission.
C26_EveryDisconnectCallEmitsOnce ==
    /\ \A n \in 1..MaxSlotCalls : (seen.calls >= n) ~> (seen.emitted >= n)
    /\ [](seen.emitted <= seen.calls)
    /\ [](seen.emitted <= Cardinality(FinishedTasks))
    /\ [](~seen.emitted_connected)

\* C27: whenever disconnected is emitted, the presence object has been
\* cleaned up (self.presence is None), whatever connect attempts came before,
\* a connect_to_discord that created the RPC object and then failed in
\* set_activity included.
C27_PresenceCleanedWhenDisconnectCompletes == ~seen.emitted_presence

\* C28: in every reachable state, between the disconnect task and its
\* callback included, connected = True implies that self.presence is an RPC
\* object.
C28_ConnectedImpliesPresence == connected => HasPresence

\* C29: however update_presence or clear_presence interleaves with the
\* disconnect task, the slot ends without an uncaught exception and never
\* calls set_activity or clear on an object the task has already released.
C29_SlotsSafeAgainstDisconnectTask == ~seen.uncaught /\ ~seen.called_released

\* C30: whatever toasts are shown, time out and finish sliding out,
\* active_toasts never holds more than max_toasts toasts.
C30_ActiveToastsNeverExceedMax == Len(active_toasts) <= max_toasts

====
